---------------------------- MODULE Spec2Model ----------------------------
(***************************************************************************)
(* Model of pr_prompt/diff_parser.py: the segmenter (parse_diff_by_files   *)
(* with extract_file_path_from_diff_header) and the classifier             *)
(* (clean_diff_content with extract_diff_content, clean_file_diffs), and of *)
(* FileFilter.exclude of pr_prompt/file_filters.py as the generator calls  *)
(* it.                                                                     *)
(*                                                                         *)
(* A Python str is a sequence of one-character strings, so that prefix,    *)
(* substring, split and join are computed character by character.          *)
(***************************************************************************)
EXTENDS Naturals, Sequences, FiniteSets

VARIABLES
    \* extract_file_path_from_diff_header, called on its own
    diff_header,        \* the argument
    hpc,                \* "call" | "returned" | "raised"
    header_value,       \* the returned path, or the ValueError's message
    \* parse_diff_by_files
    diff,               \* the argument diff (the whole text)
    file_whitelist,     \* the argument file_whitelist
    whitelist_strings,  \* local, line 17
    lines,              \* diff.split("\n"), line 19
    line_idx,           \* position of the for loop in lines (1-based)
    file_diffs,         \* local dict, line 13
    current_file,       \* local, line 14 (None or a str)
    current_diff_lines, \* local list, line 15
    pc,                 \* "call" | "loop" | "done" | "raised"
    returned,           \* the returned dict (once pc = "done")
    error,              \* the ValueError's message (once pc = "raised")
    \* clean_diff_content
    file_path,          \* the argument file_path
    file_diff,          \* the argument file_diff (one block)
    block_lines,        \* the local lines, line 106
    i,                  \* the loop index of line 111 (0-based, as in the source)
    operation_type,     \* local, line 107
    name_history,       \* local, line 108
    content_start_idx,  \* local, line 109 (0-based)
    cpc,                \* "call" | "scan" | "scanned" | "done"
    diff_file,          \* the returned DiffFile (once cpc = "done")
    \* clean_file_diffs
    file_diffs_items,   \* the argument file_diffs, as its items() in order
    item_idx,           \* position of the for loop of line 88 in the items (1-based)
    cleaned_diffs,      \* local dict, line 86
    bpc,                \* "call" | "loop" | "in_call" | "done"
    \* FileFilter.exclude, called on its own or by PrPromptGenerator._generate
    self_blacklist_patterns, \* the generator's self.blacklist_patterns
    files,              \* the argument files (the generator's changed_files)
    patterns,           \* the argument patterns (the generator's blacklist_patterns)
    file_filter_result, \* the returned list (the generator's file_whitelist)
    fpc,                \* "generate" | "call" | "called" | "done" | "whitelist"
    \* extract_diff_content, called on its own or by clean_diff_content
    arg_lines,          \* the list object passed as the argument lines
    arg_content_start_idx, \* the argument content_start_idx
    arg_name_history,   \* the argument name_history
    cleaned_lines,      \* local list, line 141
    extract_result,     \* the returned str (once epc = "done")
    epc                 \* "call" | "sliced" | "ready" | "done"

header_vars == <<diff_header, hpc, header_value>>
parse_vars == <<diff, file_whitelist, whitelist_strings, lines, line_idx, file_diffs,
                current_file, current_diff_lines, pc, returned, error>>
clean_vars == <<file_path, file_diff, block_lines, i, operation_type, name_history,
                content_start_idx, cpc, diff_file>>
batch_vars == <<file_diffs_items, item_idx, cleaned_diffs, bpc>>
filter_vars == <<self_blacklist_patterns, files, patterns, file_filter_result, fpc>>
extract_vars == <<arg_lines, arg_content_start_idx, arg_name_history, cleaned_lines,
                  extract_result, epc>>
vars == <<header_vars, parse_vars, clean_vars, batch_vars, filter_vars, extract_vars>>

---------------------------------------------------------------------------
(* Bounds of the model                                                     *)

\* the longest diff text, in lines
MaxLines == 3
\* the longest header handed to extract_file_path_from_diff_header, in tokens
MaxTokens == 5
\* the longest block handed to clean_diff_content, in lines
MaxBlockLines == 3
\* the most entries of a mapping handed to clean_file_diffs
MaxFiles == 2
\* the longest list of changed files handed to FileFilter.exclude
MaxChangedFiles == 2
\* the longest list of patterns
MaxPatterns == 2
\* the longest list handed to extract_diff_content
MaxExtractLines == 2

---------------------------------------------------------------------------
(* String literals of diff_parser.py                                       *)

NL == "\n"
DIFF_GIT == <<"d","i","f","f"," ","-","-","g","i","t">>
B_PREFIX == <<"b","/">>
MSG_FORMAT == <<"I","n","v","a","l","i","d"," ","d","i","f","f"," ","h","e","a","d","e","r"," ","f","o","r","m","a","t",":"," ">>
MSG_PREFIX == <<"E","x","p","e","c","t","e","d"," ","'","b","/","'"," ","p","r","e","f","i","x"," ","i","n"," ","d","i","f","f"," ","h","e","a","d","e","r",":"," ">>
min_parts == 4
NEW_FILE_MODE == <<"n","e","w"," ","f","i","l","e"," ","m","o","d","e">>
DELETED_FILE_MODE == <<"d","e","l","e","t","e","d"," ","f","i","l","e"," ","m","o","d","e">>
SIMILARITY_INDEX == <<"s","i","m","i","l","a","r","i","t","y"," ","i","n","d","e","x">>
SIMILARITY_100 == <<"s","i","m","i","l","a","r","i","t","y"," ","i","n","d","e","x"," ","1","0","0","%">>
RENAME_FROM == <<"r","e","n","a","m","e"," ","f","r","o","m">>
RENAME_FROM_SP == <<"r","e","n","a","m","e"," ","f","r","o","m"," ">>
HUNK == <<"@","@">>
TO == <<" ","t","o"," ">>

\* class DiffOperation
MODIFIED == "Modified"
ADDED == "Added"
DELETED == "Deleted"
RENAMED == "Renamed"
RENAMED_AND_MODIFIED == "Renamed and Modified"
DiffOperation == {MODIFIED, ADDED, DELETED, RENAMED, RENAMED_AND_MODIFIED}

\* Python's None (no str is equal to it: a str holds one-character elements)
None == <<"None">>

---------------------------------------------------------------------------
(* Python's str operations                                                 *)

\* s.startswith(prefix)
startswith(s, prefix) ==
    /\ Len(prefix) <= Len(s)
    /\ SubSeq(s, 1, Len(prefix)) = prefix

\* sub in s
contains(s, sub) ==
    \E k \in 0..(Len(s) - Len(sub)) : SubSeq(s, k + 1, k + Len(sub)) = sub

\* s[n:]
slice_from(s, n) == SubSeq(s, n + 1, Len(s))

\* the characters str.split() splits on
isspace(c) == c \in {" ", "\t", "\n"}

\* s.split(sep) for a one-character sep: the pieces between the separators,
\* empty pieces kept
\* (from position k on: the piece up to the next separator, then the rest)
RECURSIVE split_acc(_, _, _)
split_acc(s, sep, k) ==
    LET found == {p \in k..Len(s) : s[p] = sep} IN
    IF found = {} THEN <<SubSeq(s, k, Len(s))>>
    ELSE LET p == CHOOSE q \in found : \A r \in found : q <= r IN
         <<SubSeq(s, k, p - 1)>> \o split_acc(s, sep, p + 1)

split(s, sep) == split_acc(s, sep, 1)

\* s.split(): the maximal runs of non-whitespace characters
\* (from position k on: the next run, then the rest)
RECURSIVE split_ws_acc(_, _)
split_ws_acc(s, k) ==
    LET starts == {p \in k..Len(s) : ~isspace(s[p])} IN
    IF starts = {} THEN <<>>
    ELSE LET a == CHOOSE q \in starts : \A r \in starts : q <= r
             ends == {p \in a..Len(s) : isspace(s[p])}
             b == IF ends = {} THEN Len(s) + 1
                  ELSE CHOOSE q \in ends : \A r \in ends : q <= r
         IN <<SubSeq(s, a, b - 1)>> \o split_ws_acc(s, b)

split_ws(s) == split_ws_acc(s, 1)

\* sep.join(pieces)
RECURSIVE join(_, _)
join(sep, pieces) ==
    IF pieces = <<>> THEN <<>>
    ELSE IF Len(pieces) = 1 THEN pieces[1]
    ELSE pieces[1] \o sep \o join(sep, Tail(pieces))

\* bool(x) of an Optional[str]: None and "" are falsy
truthy(x) == x # None /\ x # <<>>

---------------------------------------------------------------------------
(* extract_file_path_from_diff_header                                      *)

\* a bug the prefix test could have: "b/" anywhere in the token
has_b_prefix_anywhere(b_path) == contains(b_path, B_PREFIX)

\* line 54: b_path.startswith("b/")
has_b_prefix(b_path) == startswith(b_path, B_PREFIX)

\* a bug the extraction could have: a missing prefix is tolerated
\* (b_path.removeprefix("b/")) instead of raised
extract_file_path_lenient(header) ==
    LET parts == split_ws(header) IN
    IF Len(parts) < min_parts
    THEN [raised |-> TRUE, value |-> MSG_FORMAT \o header]
    ELSE LET b_path == parts[4] IN
         IF ~has_b_prefix(b_path)
         THEN [raised |-> FALSE, value |-> b_path]
         ELSE [raised |-> FALSE, value |-> slice_from(b_path, 2)]

\* a bug the extraction could have: the path is taken from the source side,
\* parts[2]
extract_file_path_from_a_side(header) ==
    LET parts == split_ws(header) IN
    IF Len(parts) < min_parts
    THEN [raised |-> TRUE, value |-> MSG_FORMAT \o header]
    ELSE LET b_path == parts[4] IN
         IF ~has_b_prefix(b_path)
         THEN [raised |-> TRUE, value |-> MSG_PREFIX \o header]
         ELSE [raised |-> FALSE, value |-> slice_from(parts[3], 2)]

\* the call's outcome: the returned path, or the raised ValueError's message
extract_file_path_from_diff_header(header) ==
    LET parts == split_ws(header) IN
    IF Len(parts) < min_parts
    THEN [raised |-> TRUE, value |-> MSG_FORMAT \o header]
    ELSE LET b_path == parts[4] IN
         IF ~has_b_prefix(b_path)
         THEN [raised |-> TRUE, value |-> MSG_PREFIX \o header]
         ELSE [raised |-> FALSE, value |-> slice_from(b_path, 2)]

---------------------------------------------------------------------------
(* parse_diff_by_files                                                     *)

\* a bug the header test could have: the marker anywhere in the line
is_header_line_anywhere(line) == contains(line, DIFF_GIT)

\* a bug the header test could have: the marker ends with a space
is_header_line_with_space(line) == startswith(line, DIFF_GIT \o <<" ">>)

\* line 20: line.startswith("diff --git")
is_header_line(line) == startswith(line, DIFF_GIT)

\* d[k] = v on a dict
dict_set(d, k, v) == [x \in (DOMAIN d) \cup {k} |-> IF x = k THEN v ELSE d[x]]

\* a bug the save could have: the whitelist is not consulted
save_file_diff_unfiltered(d, file, diff_lines, whitelist) ==
    IF truthy(file) THEN dict_set(d, file, join(<<NL>>, diff_lines)) ELSE d

\* a bug the save could have: a block is appended to the one already stored
save_file_diff_appending(d, file, diff_lines, whitelist) ==
    IF truthy(file) /\ file \in whitelist
    THEN dict_set(d, file,
                  IF file \in DOMAIN d
                  THEN d[file] \o <<NL>> \o join(<<NL>>, diff_lines)
                  ELSE join(<<NL>>, diff_lines))
    ELSE d

\* lines 22-23 and 33-34: store the block that closes, if it is whitelisted
save_file_diff(d, file, diff_lines, whitelist) ==
    IF truthy(file) /\ file \in whitelist
    THEN dict_set(d, file, join(<<NL>>, diff_lines))
    ELSE d

\* a bug the new block could have: the header line is left out of it
new_block_without_header(line) == <<>>

\* line 26: the block of a new file starts with its header line
new_block(line) == <<line>>

\* a bug the loop could have: "else" for "elif current_file"
in_block_always(file) == TRUE

\* line 29: a block is open
in_block(file) == truthy(file)

\* lines 13-19: the locals, and the list the for loop walks
ParseCall ==
    /\ pc = "call"
    /\ file_diffs' = <<>>
    /\ current_file' = None
    /\ current_diff_lines' = <<>>
    /\ whitelist_strings' = {f : f \in file_whitelist}
    /\ lines' = split(diff, NL)
    /\ line_idx' = 1
    /\ pc' = "loop"
    /\ UNCHANGED <<diff, file_whitelist, returned, error, header_vars, clean_vars, batch_vars, filter_vars, extract_vars>>

\* lines 20-27, the header is well-formed: close the block, open the next
LoopNewFile ==
    /\ pc = "loop"
    /\ line_idx <= Len(lines)
    /\ is_header_line(lines[line_idx])
    /\ LET line == lines[line_idx]
           r == extract_file_path_from_diff_header(line) IN
       /\ ~r.raised
       /\ file_diffs' = save_file_diff(file_diffs, current_file, current_diff_lines,
                                       whitelist_strings)
       /\ current_diff_lines' = new_block(line)
       /\ current_file' = r.value
    /\ line_idx' = line_idx + 1
    /\ UNCHANGED <<diff, file_whitelist, whitelist_strings, lines, pc, returned, error,
                   header_vars, clean_vars, batch_vars, filter_vars, extract_vars>>

\* lines 20-27, the header is malformed: line 27 raises out of the function
LoopMalformedHeader ==
    /\ pc = "loop"
    /\ line_idx <= Len(lines)
    /\ is_header_line(lines[line_idx])
    /\ LET line == lines[line_idx]
           r == extract_file_path_from_diff_header(line) IN
       /\ r.raised
       /\ file_diffs' = save_file_diff(file_diffs, current_file, current_diff_lines,
                                       whitelist_strings)
       /\ current_diff_lines' = new_block(line)
       /\ error' = r.value
    /\ pc' = "raised"
    /\ UNCHANGED <<diff, file_whitelist, whitelist_strings, lines, line_idx, current_file,
                   returned, header_vars, clean_vars, batch_vars, filter_vars, extract_vars>>

\* lines 29-30: a line of the open block
LoopAppend ==
    /\ pc = "loop"
    /\ line_idx <= Len(lines)
    /\ ~is_header_line(lines[line_idx])
    /\ in_block(current_file)
    /\ current_diff_lines' = Append(current_diff_lines, lines[line_idx])
    /\ line_idx' = line_idx + 1
    /\ UNCHANGED <<diff, file_whitelist, whitelist_strings, lines, file_diffs, current_file,
                   pc, returned, error, header_vars, clean_vars, batch_vars, filter_vars, extract_vars>>

\* line 29 is false: a line outside any block is dropped
LoopSkip ==
    /\ pc = "loop"
    /\ line_idx <= Len(lines)
    /\ ~is_header_line(lines[line_idx])
    /\ ~in_block(current_file)
    /\ line_idx' = line_idx + 1
    /\ UNCHANGED <<diff, file_whitelist, whitelist_strings, lines, file_diffs, current_file,
                   current_diff_lines, pc, returned, error, header_vars, clean_vars, batch_vars, filter_vars, extract_vars>>

\* lines 32-36: the loop is over, close the last block and return
ParseReturn ==
    /\ pc = "loop"
    /\ line_idx > Len(lines)
    /\ file_diffs' = save_file_diff(file_diffs, current_file, current_diff_lines,
                                    whitelist_strings)
    /\ returned' = {file_diffs'}
    /\ pc' = "done"
    /\ UNCHANGED <<diff, file_whitelist, whitelist_strings, lines, line_idx, current_file,
                   current_diff_lines, error, header_vars, clean_vars, batch_vars, filter_vars, extract_vars>>

\* lines 19-30 as a function of the locals st: one round of the for loop
loop_body(st, line, whitelist) ==
    IF st.raised THEN st
    ELSE IF is_header_line(line)
    THEN LET r == extract_file_path_from_diff_header(line)
             saved == save_file_diff(st.file_diffs, st.current_file,
                                     st.current_diff_lines, whitelist)
         IN IF r.raised
            THEN [st EXCEPT !.raised = TRUE, !.error = r.value, !.file_diffs = saved,
                            !.current_diff_lines = new_block(line)]
            ELSE [st EXCEPT !.file_diffs = saved, !.current_diff_lines = new_block(line),
                            !.current_file = r.value]
    ELSE IF in_block(st.current_file)
    THEN [st EXCEPT !.current_diff_lines = Append(st.current_diff_lines, line)]
    ELSE st

\* line 19: the for loop over the lines from the k-th on
RECURSIVE loop_from(_, _, _, _)
loop_from(st, ls, k, whitelist) ==
    IF k > Len(ls) THEN st
    ELSE loop_from(loop_body(st, ls[k], whitelist), ls, k + 1, whitelist)

\* lines 6-36 as a function of the arguments: what a whole call returns
\* (value) or raises (raised, with the message as value)
parse_diff_by_files(diff_arg, whitelist_arg) ==
    LET strings == {f : f \in whitelist_arg}
        st == loop_from([file_diffs |-> <<>>, current_file |-> None,
                         current_diff_lines |-> <<>>, raised |-> FALSE, error |-> None],
                        split(diff_arg, NL), 1, strings)
    IN IF st.raised THEN [raised |-> TRUE, value |-> st.error]
       ELSE [raised |-> FALSE,
             value |-> save_file_diff(st.file_diffs, st.current_file,
                                      st.current_diff_lines, strings)]

---------------------------------------------------------------------------
(* clean_diff_content and extract_diff_content                             *)

\* a bug the extraction could have: the rename note is not put in front
extract_diff_content_without_note(lines_arg, start_idx, history) ==
    IF start_idx >= Len(lines_arg) THEN <<>>
    ELSE join(<<NL>>, SubSeq(lines_arg, start_idx + 1, Len(lines_arg)))

\* a bug the extraction could have: the slice starts one line late
extract_diff_content_late(lines_arg, start_idx, history) ==
    IF start_idx >= Len(lines_arg) THEN <<>>
    ELSE LET sliced_lines == SubSeq(lines_arg, start_idx + 2, Len(lines_arg)) IN
         join(<<NL>>, IF history # <<>> THEN <<history>> \o sliced_lines ELSE sliced_lines)

\* a bug the extraction could have: index 0 taken as "no hunk line found"
extract_diff_content_empty_at_zero(lines_arg, start_idx, history) ==
    IF start_idx = 0 \/ start_idx >= Len(lines_arg) THEN <<>>
    ELSE LET sliced_lines == SubSeq(lines_arg, start_idx + 1, Len(lines_arg)) IN
         join(<<NL>>, IF history # <<>> THEN <<history>> \o sliced_lines ELSE sliced_lines)

\* lines 135-145
extract_diff_content(lines_arg, start_idx, history) ==
    IF start_idx >= Len(lines_arg) THEN <<>>
    ELSE LET sliced_lines == SubSeq(lines_arg, start_idx + 1, Len(lines_arg)) IN
         join(<<NL>>, IF history # <<>> THEN <<history>> \o sliced_lines ELSE sliced_lines)

\* a bug the similarity test could have: no similarity is a pure rename
is_full_similarity_never(line) == FALSE

\* a bug the similarity test could have: every similarity is a pure rename
is_full_similarity_always(line) == TRUE

\* a bug the similarity test could have: the line is compared as a whole
is_full_similarity_exact(line) == line = SIMILARITY_100

\* line 117: "similarity index 100%" in line
is_full_similarity(line) == contains(line, SIMILARITY_100)

\* a bug the rename test could have: the second operand of line 116 is missing
has_rename_marker_always(block) == TRUE

\* line 116, second operand: "rename from" in file_diff
has_rename_marker(block) == contains(block, RENAME_FROM)

\* line 122: f"{line} to {file_path}"
rename_note(line, path) == line \o TO \o path

\* a bug the pure rename could have: its content goes through
\* extract_diff_content like that of the other operations
pure_rename_content_extracted(lines_arg, start_idx, history) ==
    extract_diff_content(lines_arg, start_idx, history)

\* line 129: the content of a pure rename is name_history alone
pure_rename_content(lines_arg, start_idx, history) == history

\* a bug the chain could have: "new file mode" handled as a deletion
branch_new_as_deleted(line, block) ==
    IF startswith(line, NEW_FILE_MODE) THEN "deleted"
    ELSE IF startswith(line, DELETED_FILE_MODE) THEN "deleted"
    ELSE IF startswith(line, SIMILARITY_INDEX) /\ has_rename_marker(block) THEN "similarity"
    ELSE IF startswith(line, RENAME_FROM_SP) THEN "rename"
    ELSE IF startswith(line, HUNK) THEN "hunk"
    ELSE "none"

\* a bug the chain could have: the "@@" test is missing, the loop never breaks
branch_without_hunk(line, block) ==
    IF startswith(line, NEW_FILE_MODE) THEN "new"
    ELSE IF startswith(line, DELETED_FILE_MODE) THEN "deleted"
    ELSE IF startswith(line, SIMILARITY_INDEX) /\ has_rename_marker(block) THEN "similarity"
    ELSE IF startswith(line, RENAME_FROM_SP) THEN "rename"
    ELSE "none"

\* the branch of lines 112-125 that a line takes
branch(line, block) ==
    IF startswith(line, NEW_FILE_MODE) THEN "new"
    ELSE IF startswith(line, DELETED_FILE_MODE) THEN "deleted"
    ELSE IF startswith(line, SIMILARITY_INDEX) /\ has_rename_marker(block) THEN "similarity"
    ELSE IF startswith(line, RENAME_FROM_SP) THEN "rename"
    ELSE IF startswith(line, HUNK) THEN "hunk"
    ELSE "none"

\* the line the loop of line 111 is at
current_line == block_lines[i + 1]

\* a bug the call could have: name_history outlives the call (a module-level
\* variable), so a call starts with the note of the call before it
CleanCall_keeping_history ==
    /\ cpc = "call"
    /\ block_lines' = split(file_diff, NL)
    /\ operation_type' = MODIFIED
    /\ content_start_idx' = 0
    /\ i' = 0
    /\ cpc' = "scan"
    /\ UNCHANGED <<name_history, file_path, file_diff, diff_file, header_vars, parse_vars, batch_vars, filter_vars, extract_vars>>

\* lines 106-109
CleanCall ==
    /\ cpc = "call"
    /\ block_lines' = split(file_diff, NL)
    /\ operation_type' = MODIFIED
    /\ name_history' = <<>>
    /\ content_start_idx' = 0
    /\ i' = 0
    /\ cpc' = "scan"
    /\ UNCHANGED <<file_path, file_diff, diff_file, header_vars, parse_vars, batch_vars, filter_vars, extract_vars>>

\* lines 112-113
ScanNewFileMode ==
    /\ cpc = "scan" /\ i < Len(block_lines)
    /\ branch(current_line, file_diff) = "new"
    /\ operation_type' = ADDED
    /\ i' = i + 1
    /\ UNCHANGED <<file_path, file_diff, block_lines, name_history, content_start_idx, cpc,
                   diff_file, header_vars, parse_vars, batch_vars, filter_vars, extract_vars>>

\* lines 114-115
ScanDeletedFileMode ==
    /\ cpc = "scan" /\ i < Len(block_lines)
    /\ branch(current_line, file_diff) = "deleted"
    /\ operation_type' = DELETED
    /\ i' = i + 1
    /\ UNCHANGED <<file_path, file_diff, block_lines, name_history, content_start_idx, cpc,
                   diff_file, header_vars, parse_vars, batch_vars, filter_vars, extract_vars>>

\* lines 116-120
ScanSimilarityIndex ==
    /\ cpc = "scan" /\ i < Len(block_lines)
    /\ branch(current_line, file_diff) = "similarity"
    /\ operation_type' = IF is_full_similarity(current_line)
                         THEN RENAMED ELSE RENAMED_AND_MODIFIED
    /\ i' = i + 1
    /\ UNCHANGED <<file_path, file_diff, block_lines, name_history, content_start_idx, cpc,
                   diff_file, header_vars, parse_vars, batch_vars, filter_vars, extract_vars>>

\* a bug the rename branch could have: the first note is kept
ScanRenameFrom_first_wins ==
    /\ cpc = "scan" /\ i < Len(block_lines)
    /\ branch(current_line, file_diff) = "rename"
    /\ name_history' = IF name_history = <<>> THEN rename_note(current_line, file_path)
                       ELSE name_history
    /\ i' = i + 1
    /\ UNCHANGED <<file_path, file_diff, block_lines, operation_type, content_start_idx, cpc,
                   diff_file, header_vars, parse_vars, batch_vars, filter_vars, extract_vars>>

\* lines 121-122
ScanRenameFrom ==
    /\ cpc = "scan" /\ i < Len(block_lines)
    /\ branch(current_line, file_diff) = "rename"
    /\ name_history' = rename_note(current_line, file_path)
    /\ i' = i + 1
    /\ UNCHANGED <<file_path, file_diff, block_lines, operation_type, content_start_idx, cpc,
                   diff_file, header_vars, parse_vars, batch_vars, filter_vars, extract_vars>>

\* lines 123-125: the first hunk line ends the loop
ScanHunk ==
    /\ cpc = "scan" /\ i < Len(block_lines)
    /\ branch(current_line, file_diff) = "hunk"
    /\ content_start_idx' = i
    /\ cpc' = "scanned"
    /\ UNCHANGED <<file_path, file_diff, block_lines, i, operation_type, name_history,
                   diff_file, header_vars, parse_vars, batch_vars, filter_vars, extract_vars>>

\* no branch of lines 112-125 is taken
ScanOtherLine ==
    /\ cpc = "scan" /\ i < Len(block_lines)
    /\ branch(current_line, file_diff) = "none"
    /\ i' = i + 1
    /\ UNCHANGED <<file_path, file_diff, block_lines, operation_type, name_history,
                   content_start_idx, cpc, diff_file, header_vars, parse_vars, batch_vars, filter_vars, extract_vars>>

\* a bug the loop could have: it reads one line past the end of the block
\* (an IndexError: no step follows)
ScanEnd_one_past ==
    /\ cpc = "scan" /\ i > Len(block_lines)
    /\ cpc' = "scanned"
    /\ UNCHANGED <<file_path, file_diff, block_lines, i, operation_type, name_history,
                   content_start_idx, diff_file, header_vars, parse_vars, batch_vars, filter_vars, extract_vars>>

\* line 111: the lines are exhausted
ScanEnd ==
    /\ cpc = "scan" /\ i >= Len(block_lines)
    /\ cpc' = "scanned"
    /\ UNCHANGED <<file_path, file_diff, block_lines, i, operation_type, name_history,
                   content_start_idx, diff_file, header_vars, parse_vars, batch_vars, filter_vars, extract_vars>>

\* lines 128-129
ReturnPureRename ==
    /\ cpc = "scanned"
    /\ operation_type = RENAMED
    /\ diff_file' = [path |-> file_path, operation_type |-> operation_type,
                     content |-> pure_rename_content(block_lines, content_start_idx,
                                                     name_history)]
    /\ cpc' = "done"
    /\ UNCHANGED <<file_path, file_diff, block_lines, i, operation_type, name_history,
                   content_start_idx, header_vars, parse_vars, batch_vars, filter_vars, extract_vars>>

\* lines 131-132
ReturnContent ==
    /\ cpc = "scanned"
    /\ operation_type # RENAMED
    /\ diff_file' = [path |-> file_path, operation_type |-> operation_type,
                     content |-> extract_diff_content(block_lines, content_start_idx,
                                                      name_history)]
    /\ cpc' = "done"
    /\ UNCHANGED <<file_path, file_diff, block_lines, i, operation_type, name_history,
                   content_start_idx, header_vars, parse_vars, batch_vars, filter_vars, extract_vars>>

---------------------------------------------------------------------------
(* The inputs                                                              *)

F == <<"f">>
G == <<"g">>

\* "diff --git a/<a> b/<b>", as git writes it
header_line(a, b) == DIFF_GIT \o <<" ", "a", "/">> \o a \o <<" ", "b", "/">> \o b

\* the lines a diff text is made of: headers of a changed file, of a renamed file
\* and of an empty path, malformed headers (three tokens; no "b/" on the fourth),
\* a line that continues the marker without a space, a hunk line and an empty line
DiffLines ==
    { header_line(F, F), header_line(F, G), header_line(<<>>, <<>>),
      DIFF_GIT \o <<" ", "a", "/", "f">>,
      DIFF_GIT \o <<" ", "a", "/", "f", " ", "f">>,
      DIFF_GIT \o <<"x", " ", "a", "/", "g", " ", "b", "/", "g">>,
      <<"+", "x">>,
      <<>> }

SeqsUpTo(S, lo, hi) == UNION {[1..k -> S] : k \in lo..hi}

\* the diff texts: one to MaxLines lines, joined by newlines (no line: the
\* empty text, which is the one-line text of the empty line)
DiffTexts == {join(<<NL>>, ls) : ls \in SeqsUpTo(DiffLines, 1, MaxLines)}

\* the paths a whitelist may hold (callers pass str paths)
WhitelistPaths == {F, G, <<>>}

\* the tokens of a header handed to extract_file_path_from_diff_header
HeaderTokens ==
    { <<"a", "/", "f">>, <<"b", "/", "g">>, <<"b", "/">>, <<"x", "b", "/", "g">>, <<"b">> }

\* the whitespace between, before and after the tokens
Separators == { <<" ">>, <<"\t">>, <<" ", " ">> }
Pads == { <<>>, <<" ">> }

TokenHeaders ==
    { pad \o join(sep, toks) \o pad :
        pad \in Pads, sep \in Separators, toks \in SeqsUpTo(HeaderTokens, 0, MaxTokens) }

\* paths that contain whitespace, and the header git writes for such a file
PathWords == { <<"x">>, <<"b", "/", "y">> }
SpacePaths == { u \o <<ws>> \o v : u \in PathWords, ws \in {" ", "\t"}, v \in PathWords }
SpacePathHeaders == { header_line(P, P) : P \in SpacePaths }

\* the lines a block handed to clean_diff_content is made of: similarity
\* lines (100%, another percentage, 100% with a trailing word), rename lines of
\* two sources, the mode lines, a hunk header, a hunk line, a hunk line that
\* holds the words "rename from", and the empty line
BlockLines ==
    { SIMILARITY_100,
      SIMILARITY_INDEX \o <<" ", "9", "2", "%">>,
      SIMILARITY_100 \o <<" ", "x">>,
      RENAME_FROM_SP \o F,
      RENAME_FROM_SP \o G,
      NEW_FILE_MODE \o <<" ", "1", "0", "0", "6", "4", "4">>,
      DELETED_FILE_MODE \o <<" ", "1", "0", "0", "6", "4", "4">>,
      HUNK \o <<" ", "-", "1", " ", "+", "1", " ">> \o HUNK,
      <<"+", "x">>,
      <<"+">> \o RENAME_FROM_SP \o F,
      <<>> }

Blocks == {join(<<NL>>, ls) : ls \in SeqsUpTo(BlockLines, 1, MaxBlockLines)}

\* the paths of the files
FilePaths == {F, G}

\* the block git writes for a pure rename of a to b
pure_rename_block(a, b) ==
    join(<<NL>>, << header_line(a, b),
                   SIMILARITY_100,
                   RENAME_FROM_SP \o a,
                   <<"r", "e", "n", "a", "m", "e", " ", "t", "o", " ">> \o b >>)

PureRenameBlocks == {pure_rename_block(a, b) : a \in FilePaths, b \in FilePaths}

\* the hunk git writes for a changed line
HunkLines ==
    << HUNK \o <<" ", "-", "1", " ", "+", "1", " ">> \o HUNK, <<"-", "o", "l", "d">>,
       <<"+", "n", "e", "w">> >>

\* the block git writes for a rename of a to b with a changed line
renamed_and_modified_block(a, b) ==
    join(<<NL>>, << header_line(a, b),
                   SIMILARITY_INDEX \o <<" ", "9", "2", "%">>,
                   RENAME_FROM_SP \o a,
                   <<"r", "e", "n", "a", "m", "e", " ", "t", "o", " ">> \o b,
                   <<"-", "-", "-", " ", "a", "/">> \o a,
                   <<"+", "+", "+", " ", "b", "/">> \o b >> \o HunkLines)

RenamedAndModifiedBlocks ==
    {renamed_and_modified_block(a, b) : a \in FilePaths, b \in FilePaths}

\* the block git writes for a changed binary file
binary_block(a) ==
    join(<<NL>>, << header_line(a, a),
                   <<"G", "I", "T", " ", "b", "i", "n", "a", "r", "y", " ", "p", "a", "t", "c", "h">> >>)

BinaryBlocks == {binary_block(a) : a \in FilePaths}

\* the block of a rename whose similarity is no percentage
invalid_similarity_block(a, b) ==
    join(<<NL>>, << header_line(a, b),
                   SIMILARITY_INDEX \o <<" ", "i", "n", "v", "a", "l", "i", "d", "%">>,
                   RENAME_FROM_SP \o a,
                   <<"r", "e", "n", "a", "m", "e", " ", "t", "o", " ">> \o b >>)

InvalidSimilarityBlocks == {invalid_similarity_block(a, b) : a \in FilePaths, b \in FilePaths}

---------------------------------------------------------------------------
(* The specifications                                                      *)

HeaderIdle == diff_header = <<>> /\ hpc = "idle" /\ header_value = None

CleanIdle ==
    /\ file_path = <<>> /\ file_diff = <<>> /\ block_lines = <<>> /\ i = 0
    /\ operation_type = MODIFIED /\ name_history = <<>> /\ content_start_idx = 0
    /\ cpc = "idle" /\ diff_file = None

BatchIdle == file_diffs_items = <<>> /\ item_idx = 0 /\ cleaned_diffs = <<>> /\ bpc = "idle"

FilterIdle ==
    /\ self_blacklist_patterns = <<>> /\ files = <<>> /\ patterns = <<>>
    /\ file_filter_result = <<>> /\ fpc = "idle"

ExtractIdle ==
    /\ arg_lines = <<>> /\ arg_content_start_idx = 0 /\ arg_name_history = <<>>
    /\ cleaned_lines = <<>> /\ extract_result = None /\ epc = "idle"

ParseIdle ==
    /\ diff = <<>> /\ file_whitelist = {} /\ whitelist_strings = {} /\ lines = <<>>
    /\ line_idx = 0 /\ file_diffs = <<>> /\ current_file = None
    /\ current_diff_lines = <<>> /\ pc = "idle" /\ returned = {} /\ error = None

\* parse_diff_by_files is called on a diff text and a whitelist
Init ==
    /\ diff \in DiffTexts
    /\ file_whitelist \in SUBSET WhitelistPaths
    /\ whitelist_strings = {} /\ lines = <<>> /\ line_idx = 0
    /\ file_diffs = <<>> /\ current_file = None /\ current_diff_lines = <<>>
    /\ pc = "call" /\ returned = {} /\ error = None
    /\ HeaderIdle
    /\ CleanIdle
    /\ BatchIdle
    /\ FilterIdle
    /\ ExtractIdle

Next ==
    \/ ParseCall
    \/ LoopNewFile
    \/ LoopMalformedHeader
    \/ LoopAppend
    \/ LoopSkip
    \/ ParseReturn

Spec == Init /\ [][Next]_vars

\* extract_file_path_from_diff_header returns
ExtractReturn ==
    /\ hpc = "call"
    /\ LET r == extract_file_path_from_diff_header(diff_header) IN
       /\ ~r.raised
       /\ header_value' = r.value
    /\ hpc' = "returned"
    /\ UNCHANGED <<diff_header, parse_vars, clean_vars, batch_vars, filter_vars, extract_vars>>

\* extract_file_path_from_diff_header raises ValueError
ExtractRaise ==
    /\ hpc = "call"
    /\ LET r == extract_file_path_from_diff_header(diff_header) IN
       /\ r.raised
       /\ header_value' = r.value
    /\ hpc' = "raised"
    /\ UNCHANGED <<diff_header, parse_vars, clean_vars, batch_vars, filter_vars, extract_vars>>

\* extract_file_path_from_diff_header is called on a header line
InitHeader ==
    /\ diff_header \in TokenHeaders \cup SpacePathHeaders
    /\ hpc = "call"
    /\ header_value = None
    /\ ParseIdle
    /\ CleanIdle
    /\ BatchIdle
    /\ FilterIdle
    /\ ExtractIdle

NextHeader == ExtractReturn \/ ExtractRaise

SpecHeader == InitHeader /\ [][NextHeader]_vars

\* clean_diff_content is called on a path and a block
InitClean ==
    /\ file_path \in FilePaths
    /\ file_diff \in Blocks \cup PureRenameBlocks \cup RenamedAndModifiedBlocks
                    \cup BinaryBlocks \cup InvalidSimilarityBlocks
    /\ block_lines = <<>> /\ i = 0
    /\ operation_type = MODIFIED /\ name_history = <<>> /\ content_start_idx = 0
    /\ cpc = "call" /\ diff_file = None
    /\ HeaderIdle
    /\ ParseIdle
    /\ BatchIdle
    /\ FilterIdle
    /\ ExtractIdle

NextClean ==
    \/ CleanCall
    \/ ScanNewFileMode
    \/ ScanDeletedFileMode
    \/ ScanSimilarityIndex
    \/ ScanRenameFrom
    \/ ScanHunk
    \/ ScanOtherLine
    \/ ScanEnd
    \/ ReturnPureRename
    \/ ReturnContent

SpecClean == InitClean /\ [][NextClean]_vars

---------------------------------------------------------------------------
(* clean_diff_content as a function of its arguments                       *)

\* lines 111-125 on the locals st, from the k-th line on (line k has index
\* k - 1 in the source)
RECURSIVE scan_from(_, _, _, _, _)
scan_from(st, ls, k, block, path) ==
    IF k > Len(ls) THEN st
    ELSE LET b == branch(ls[k], block) IN
         IF b = "hunk" THEN [st EXCEPT !.content_start_idx = k - 1]
         ELSE scan_from(
                  IF b = "new" THEN [st EXCEPT !.operation_type = ADDED]
                  ELSE IF b = "deleted" THEN [st EXCEPT !.operation_type = DELETED]
                  ELSE IF b = "similarity"
                       THEN [st EXCEPT !.operation_type =
                                 IF is_full_similarity(ls[k]) THEN RENAMED
                                 ELSE RENAMED_AND_MODIFIED]
                  ELSE IF b = "rename"
                       THEN [st EXCEPT !.name_history = rename_note(ls[k], path)]
                  ELSE st,
                  ls, k + 1, block, path)

\* lines 95-132: the DiffFile a whole call returns
clean_diff_content(path, block) ==
    LET ls == split(block, NL)
        st == scan_from([operation_type |-> MODIFIED, name_history |-> <<>>,
                         content_start_idx |-> 0], ls, 1, block, path)
    IN [path |-> path,
        operation_type |-> st.operation_type,
        content |-> IF st.operation_type = RENAMED
                    THEN pure_rename_content(ls, st.content_start_idx, st.name_history)
                    ELSE extract_diff_content(ls, st.content_start_idx, st.name_history)]

---------------------------------------------------------------------------
(* clean_file_diffs                                                        *)

\* the mapping's items: file_diffs.items(), keys distinct, in insertion order
items_dict(items) ==
    [p \in {items[k][1] : k \in DOMAIN items} |->
        (CHOOSE it \in {items[k] : k \in DOMAIN items} : it[1] = p)[2]]

\* line 86, and the for loop of line 88 starts
CleanFilesCall ==
    /\ bpc = "call"
    /\ cleaned_diffs' = <<>>
    /\ item_idx' = 1
    /\ bpc' = "loop"
    /\ UNCHANGED <<file_diffs_items, header_vars, parse_vars, clean_vars, filter_vars, extract_vars>>

\* lines 88-89: the next item, and clean_diff_content is called on it
CleanFilesNextItem ==
    /\ bpc = "loop"
    /\ item_idx <= Len(file_diffs_items)
    /\ file_path' = file_diffs_items[item_idx][1]
    /\ file_diff' = file_diffs_items[item_idx][2]
    /\ cpc' = "call"
    /\ bpc' = "in_call"
    /\ UNCHANGED <<block_lines, i, operation_type, name_history, content_start_idx,
                   diff_file, file_diffs_items, item_idx, cleaned_diffs,
                   header_vars, parse_vars, filter_vars, extract_vars>>

\* lines 89-90: the call has returned, its record is stored under the key
CleanFilesStore ==
    /\ bpc = "in_call"
    /\ cpc = "done"
    /\ cleaned_diffs' = dict_set(cleaned_diffs, file_path, diff_file)
    /\ item_idx' = item_idx + 1
    /\ cpc' = "idle"
    /\ bpc' = "loop"
    /\ UNCHANGED <<file_path, file_diff, block_lines, i, operation_type, name_history,
                   content_start_idx, diff_file, file_diffs_items, header_vars, parse_vars, filter_vars, extract_vars>>

\* line 92
CleanFilesReturn ==
    /\ bpc = "loop"
    /\ item_idx > Len(file_diffs_items)
    /\ bpc' = "done"
    /\ UNCHANGED <<file_diffs_items, item_idx, cleaned_diffs, header_vars, parse_vars,
                   clean_vars, filter_vars, extract_vars>>

\* the paths of the mapping's keys
H == <<"h">>
BatchPaths == {F, G, H}

\* the block git writes for a changed line of a
modified_block(a) == join(<<NL>>, <<header_line(a, a)>> \o HunkLines)

\* the block git writes for a new file a
added_block(a) ==
    join(<<NL>>, <<header_line(a, a), NEW_FILE_MODE \o <<" ", "1", "0", "0", "6", "4", "4">>,
                   HUNK \o <<" ", "-", "0", " ", "+", "1", " ">> \o HUNK, <<"+", "x">> >>)

\* the block git writes for a deleted empty file a
deleted_block(a) ==
    join(<<NL>>, <<header_line(a, a),
                   DELETED_FILE_MODE \o <<" ", "1", "0", "0", "6", "4", "4">> >>)

\* the blocks of the mapping's values
BatchBlocks ==
    { modified_block(F), added_block(F), deleted_block(F), pure_rename_block(F, G),
      renamed_and_modified_block(F, G) }

\* the mappings handed to clean_file_diffs: up to MaxFiles items, keys distinct
BatchItems ==
    { items \in SeqsUpTo(BatchPaths \X BatchBlocks, 0, MaxFiles) :
        \A j \in DOMAIN items, k \in DOMAIN items : items[j][1] = items[k][1] => j = k }

\* clean_file_diffs is called on a mapping
InitCleanFiles ==
    /\ file_diffs_items \in BatchItems
    /\ item_idx = 0 /\ cleaned_diffs = <<>> /\ bpc = "call"
    /\ HeaderIdle
    /\ ParseIdle
    /\ CleanIdle
    /\ FilterIdle
    /\ ExtractIdle

NextCleanFiles ==
    \/ CleanFilesCall
    \/ CleanFilesNextItem
    \/ CleanCall
    \/ ScanNewFileMode
    \/ ScanDeletedFileMode
    \/ ScanSimilarityIndex
    \/ ScanRenameFrom
    \/ ScanHunk
    \/ ScanOtherLine
    \/ ScanEnd
    \/ ReturnPureRename
    \/ ReturnContent
    \/ CleanFilesStore
    \/ CleanFilesReturn

SpecCleanFiles == InitCleanFiles /\ [][NextCleanFiles]_vars

---------------------------------------------------------------------------
(* FileFilter.exclude and the whitelist of PrPromptGenerator._generate     *)

\* fnmatch.fnmatch(name, pat) for patterns of literal characters, "?" and
\* "*" (no "[" in the patterns of the model), on a POSIX path (normcase
\* changes nothing): does name from position k on match pat from position j on
RECURSIVE fnmatch_from(_, _, _, _)
fnmatch_from(name, pat, k, j) ==
    IF j > Len(pat) THEN k > Len(name)
    ELSE IF pat[j] = "*"
         THEN \/ fnmatch_from(name, pat, k, j + 1)
              \/ k <= Len(name) /\ fnmatch_from(name, pat, k + 1, j)
    ELSE /\ k <= Len(name)
         /\ pat[j] = "?" \/ pat[j] = name[k]
         /\ fnmatch_from(name, pat, k + 1, j + 1)

fnmatch(name, pat) == fnmatch_from(name, pat, 1, 1)

\* line 27: any(fnmatch.fnmatch(file, pattern) for pattern in patterns)
any_match(file, pats) == \E j \in DOMAIN pats : fnmatch(file, pats[j])

\* lines 24-28: the list comprehension, from the k-th file on
RECURSIVE exclude_from(_, _, _)
exclude_from(fs, pats, k) ==
    IF k > Len(fs) THEN <<>>
    ELSE (IF any_match(fs[k], pats) THEN <<>> ELSE <<fs[k]>>) \o exclude_from(fs, pats, k + 1)

\* a bug exclude could have: no pattern gives no file, as in FileFilter.match
exclude_nothing_without_patterns(fs, pats) ==
    IF pats = <<>> THEN <<>> ELSE exclude_from(fs, pats, 1)

\* lines 21-28
exclude(fs, pats) ==
    IF pats = <<>> THEN fs ELSE exclude_from(fs, pats, 1)

\* generator.py line 154: the pattern appended to every blacklist
SPACE_PATTERN == <<"*", " ", "*">>

\* generator.py lines 152-154: the copy of the blacklist, with "* *" appended
GenerateBlacklist ==
    /\ fpc = "generate"
    /\ patterns' = Append(self_blacklist_patterns, SPACE_PATTERN)
    /\ fpc' = "called"
    /\ UNCHANGED <<self_blacklist_patterns, files, file_filter_result,
                   header_vars, parse_vars, clean_vars, batch_vars, extract_vars>>

\* generator.py line 156: file_whitelist = FileFilter.exclude(changed_files, ...)
GenerateWhitelist ==
    /\ fpc = "called"
    /\ file_filter_result' = exclude(files, patterns)
    /\ fpc' = "whitelist"
    /\ UNCHANGED <<self_blacklist_patterns, files, patterns,
                   header_vars, parse_vars, clean_vars, batch_vars, extract_vars>>

\* file_filters.py lines 21-28: exclude called on its own
ExcludeReturn ==
    /\ fpc = "call"
    /\ file_filter_result' = exclude(files, patterns)
    /\ fpc' = "done"
    /\ UNCHANGED <<self_blacklist_patterns, files, patterns,
                   header_vars, parse_vars, clean_vars, batch_vars, extract_vars>>

\* the changed files: a plain path, a path with a space, one with a tab, one
\* that is a space, and a Python file
ChangedFiles ==
    { F, <<"a", " ", "b">>, <<"a", "\t", "b">>, <<" ">>, <<"g", ".", "p", "y">> }

\* the patterns: a suffix, a literal, one character, and the space pattern
Patterns == { <<"*", ".", "p", "y">>, F, <<"?">>, SPACE_PATTERN }

\* exclude is called on files and patterns, or the generator builds its
\* whitelist from the changed files and its blacklist
InitFilter ==
    /\ files \in SeqsUpTo(ChangedFiles, 0, MaxChangedFiles)
    /\ \/ /\ fpc = "call"
          /\ patterns \in SeqsUpTo(Patterns, 0, MaxPatterns)
          /\ self_blacklist_patterns = <<>>
       \/ /\ fpc = "generate"
          /\ patterns = <<>>
          /\ self_blacklist_patterns \in SeqsUpTo(Patterns, 0, MaxPatterns)
    /\ file_filter_result = <<>>
    /\ HeaderIdle
    /\ ParseIdle
    /\ CleanIdle
    /\ BatchIdle
    /\ ExtractIdle

NextFilter == GenerateBlacklist \/ GenerateWhitelist \/ ExcludeReturn

SpecFilter == InitFilter /\ [][NextFilter]_vars

---------------------------------------------------------------------------
(* The vocabulary of the properties, stated on the input text itself       *)

Min(S) == CHOOSE x \in S : \A y \in S : x <= y
Max(S) == CHOOSE x \in S : \A y \in S : x >= y

\* the k-th smallest member of a set of numbers
Kth(S, k) == CHOOSE x \in S : Cardinality({y \in S : y < x}) = k - 1

\* the positions where a whitespace-separated token of s starts
TokenStarts(s) == {k \in 1..Len(s) : ~isspace(s[k]) /\ (k = 1 \/ isspace(s[k - 1]))}

NumTokens(s) == Cardinality(TokenStarts(s))

\* the n-th whitespace-separated token of s (n <= NumTokens(s)): from its
\* start to the character before the next whitespace
NthToken(s, n) ==
    LET k == Kth(TokenStarts(s), n)
        spaces == {j \in (k + 1)..Len(s) : isspace(s[j])}
        e == IF spaces = {} THEN Len(s) ELSE Min(spaces) - 1
    IN SubSeq(s, k, e)

\* a header line the extraction accepts, and the path it names
WellFormedHeader(h) ==
    /\ NumTokens(h) >= 4
    /\ LET tok == NthToken(h, 4) IN Len(tok) >= 2 /\ tok[1] = "b" /\ tok[2] = "/"

DestinationPath(h) == LET tok == NthToken(h, 4) IN SubSeq(tok, 3, Len(tok))

\* the lines of a text t: line n runs from LineStart to LineEnd, between the
\* (n-1)-th and the n-th newline
Newlines(t) == {k \in 1..Len(t) : t[k] = NL}

LineCount(t) == 1 + Cardinality(Newlines(t))

LineStart(t, n) == IF n = 1 THEN 1 ELSE Kth(Newlines(t), n - 1) + 1

LineEnd(t, n) == IF n = LineCount(t) THEN Len(t) ELSE Kth(Newlines(t), n) - 1

LineOf(t, n) == SubSeq(t, LineStart(t, n), LineEnd(t, n))

\* the header lines of the diff text, by line number
HeaderIdxs == {n \in 1..LineCount(diff) : startswith(LineOf(diff, n), DIFF_GIT)}

MalformedIdxs == {n \in HeaderIdxs : ~WellFormedHeader(LineOf(diff, n))}

FirstHeader == IF HeaderIdxs = {} THEN LineCount(diff) + 1 ELSE Min(HeaderIdxs)

\* the destination paths the headers of the diff text name
HeaderPaths == {DestinationPath(LineOf(diff, n)) : n \in HeaderIdxs \ MalformedIdxs}

\* the text of the block header line n opens: up to the line before the next
\* header line, or to the end of the text
BlockOf(n) ==
    LET later == {m \in HeaderIdxs : m > n}
        last == IF later = {} THEN LineCount(diff) ELSE Min(later) - 1
    IN SubSeq(diff, LineStart(diff, n), LineEnd(diff, last))

---------------------------------------------------------------------------
(* Properties of the segmenter (under Spec)                                *)

\* C1 as stated: when every header is well-formed, the mapping has as many
\* entries as there are distinct destination paths in the headers that are
\* members of the whitelist.
C1_CountAsStated ==
    (pc = "done" /\ MalformedIdxs = {}) =>
        \A d \in returned :
            Cardinality(DOMAIN d) = Cardinality(HeaderPaths \cap file_whitelist)

\* C1, amended: when every header is well-formed, the mapping has as many
\* entries as there are distinct non-empty destination paths in the headers
\* that are members of the whitelist.
C1_CountOfNonEmptyPaths ==
    (pc = "done" /\ MalformedIdxs = {}) =>
        \A d \in returned :
            Cardinality(DOMAIN d) = Cardinality((HeaderPaths \cap file_whitelist) \ {<<>>})

\* three headers, two of them for the same path and one not whitelisted
C1_Witness ==
    /\ pc = "done"
    /\ Cardinality(HeaderIdxs) = 3
    /\ HeaderPaths = {F, G}
    /\ file_whitelist = {F}
    /\ \E d \in returned : DOMAIN d = {F}

\* C2: every key of the returned mapping is a member of the whitelist (and
\* the destination path of a header); with an empty whitelist, or one that
\* matches no header, the returned mapping is empty.
C2_KeysWhitelisted ==
    pc = "done" =>
        \A d \in returned :
            /\ DOMAIN d \subseteq file_whitelist
            /\ DOMAIN d \subseteq HeaderPaths
            /\ (file_whitelist = {} \/ file_whitelist \cap HeaderPaths = {}) => d = <<>>

\* a block was kept and the block of another header was discarded
C2_Witness ==
    /\ pc = "done"
    /\ HeaderPaths = {F, G}
    /\ file_whitelist = {G, <<>>}
    /\ \E d \in returned : DOMAIN d = {G}

\* C5: a malformed header aborts the parse at the first such line: the call
\* raises there with that line in the message and returns nothing, and a
\* call that returns has met no malformed header.
C5_MalformedHeaderAborts ==
    /\ pc = "done" => MalformedIdxs = {}
    /\ pc = "loop" => \A n \in MalformedIdxs : n >= line_idx
    /\ pc = "raised" =>
        /\ returned = {}
        /\ MalformedIdxs # {}
        /\ line_idx = Min(MalformedIdxs)
        /\ contains(error, LineOf(diff, line_idx))

\* the call raised on the second line, after a whitelisted block and before a
\* well-formed header, on a header whose file is whitelisted
C5_Witness ==
    /\ pc = "raised"
    /\ line_idx = 2
    /\ F \in DOMAIN file_diffs
    /\ F \in file_whitelist
    /\ LineOf(diff, 2) = DIFF_GIT \o <<" ", "a", "/", "f", " ", "f">>
    /\ 3 \in HeaderIdxs \ MalformedIdxs

\* C6: each returned block is the text of the diff from a header line of its
\* path up to, not including, the next header line or the end of the text; no
\* other line of it starts with the marker; a header that nothing follows
\* gives the one-line block of the header.
C6_BlockIsHeaderToNextHeader ==
    pc = "done" =>
        \A d \in returned : \A k \in DOMAIN d :
            /\ \E n \in HeaderIdxs :
                   /\ DestinationPath(LineOf(diff, n)) = k
                   /\ d[k] = BlockOf(n)
                   /\ (n = LineCount(diff) \/ (n + 1) \in HeaderIdxs) => d[k] = LineOf(diff, n)
            /\ startswith(LineOf(d[k], 1), DIFF_GIT)
            /\ \A m \in 2..LineCount(d[k]) : ~startswith(LineOf(d[k], m), DIFF_GIT)

\* a two-line block closed by the next header, whose own block is one line
C6_Witness ==
    /\ pc = "done"
    /\ HeaderIdxs = {1, 3}
    /\ \E d \in returned :
           /\ DOMAIN d = {F, G}
           /\ LineCount(d[F]) = 2
           /\ d[G] = header_line(F, G)

\* C7: lines before the first header are ignored: until a header is met no
\* block is open and nothing is collected; every returned block lies at or
\* after the first header; a text without header gives the empty mapping.
C7_LinesBeforeFirstHeaderIgnored ==
    /\ (pc = "loop" /\ line_idx <= FirstHeader) =>
           current_file = None /\ current_diff_lines = <<>> /\ file_diffs = <<>>
    /\ (pc = "done" /\ HeaderIdxs = {}) => returned = {<<>>}
    /\ pc = "done" =>
           \A d \in returned : \A k \in DOMAIN d :
               \E p \in LineStart(diff, FirstHeader)..Len(diff) :
                   /\ p = 1 \/ diff[p - 1] = NL
                   /\ SubSeq(diff, p, p + Len(d[k]) - 1) = d[k]
                   /\ startswith(d[k], DIFF_GIT)

\* a line precedes the first header, whose block is returned without it
C7_Witness ==
    /\ pc = "done"
    /\ FirstHeader = 2
    /\ LineOf(diff, 1) = <<"+", "x">>
    /\ \E d \in returned : DOMAIN d # {} /\ \A k \in DOMAIN d : LineCount(d[k]) = 2

\* C8: every key of the returned mapping is non-empty and is the path after
\* "b/" in the fourth token of the header line that starts its block.
C8_KeyIsDestinationPath ==
    pc = "done" =>
        \A d \in returned : \A k \in DOMAIN d :
            /\ k # <<>>
            /\ LET h == LineOf(d[k], 1) IN
               /\ startswith(h, DIFF_GIT)
               /\ NthToken(h, 4) = <<"b", "/">> \o k

\* a rename header a/f b/g is stored under g, with f whitelisted too
C8_Witness ==
    /\ pc = "done"
    /\ file_whitelist = {F, G}
    /\ \E d \in returned :
           /\ DOMAIN d = {G}
           /\ d[G] = header_line(F, G)

---------------------------------------------------------------------------
(* Properties of the header extraction (under SpecHeader)                  *)

TXT_INVALID_FORMAT == <<"I","n","v","a","l","i","d"," ","d","i","f","f"," ","h","e","a","d","e","r"," ","f","o","r","m","a","t">>
TXT_EXPECTED_PREFIX == <<"E","x","p","e","c","t","e","d"," ","'","b","/","'"," ","p","r","e","f","i","x">>

\* C3: the extraction returns iff the header has at least four tokens and
\* the fourth starts with "b/", and then returns that token without the
\* "b/"; otherwise it raises a message that holds the header line, with
\* "Invalid diff header format" for fewer than four tokens and
\* "Expected 'b/' prefix" for a missing prefix.
C3_ExtractContract ==
    hpc \in {"returned", "raised"} =>
        /\ hpc = "returned" <=> WellFormedHeader(diff_header)
        /\ hpc = "returned" => <<"b", "/">> \o header_value = NthToken(diff_header, 4)
        /\ hpc = "raised" =>
            /\ contains(header_value, diff_header)
            /\ IF NumTokens(diff_header) < 4
               THEN contains(header_value, TXT_INVALID_FORMAT)
               ELSE contains(header_value, TXT_EXPECTED_PREFIX)

\* a header of five tokens, padded, whose fourth token is b/g
C3_Witness ==
    /\ hpc = "returned"
    /\ header_value = G
    /\ NumTokens(diff_header) = 5
    /\ isspace(diff_header[1])

\* C4 as stated: the header of a file whose path contains whitespace always
\* makes the extraction raise.
C4_SpacePathAlwaysRaises ==
    \A P \in SpacePaths :
        (diff_header = header_line(P, P) /\ hpc # "call") => hpc = "raised"

---------------------------------------------------------------------------
(* Properties of the classifier (under SpecClean)                          *)

\* the first line of the block that starts with "@@" (past the end if none)
FirstHunk ==
    LET starts == {1} \cup {k + 1 : k \in Newlines(file_diff)}
        hunks == {p \in starts : p + 1 <= Len(file_diff) /\ SubSeq(file_diff, p, p + 1) = HUNK}
    IN IF hunks = {} THEN LineCount(file_diff) + 1
       ELSE 1 + Cardinality({k \in Newlines(file_diff) : k < Min(hunks)})

\* the lines starting with "rename from " before the first "@@" line
RenameFromIdxs ==
    {n \in 1..(FirstHunk - 1) : startswith(LineOf(file_diff, n), RENAME_FROM_SP)}

\* C9: for the block of a pure rename of A to B (header, similarity index
\* 100%, rename from A, rename to B, no hunk) and the path B, the record is
\* Renamed with the content "rename from A to B".
C9_PureRename ==
    \A a \in FilePaths, b \in FilePaths :
        (cpc = "done" /\ file_diff = pure_rename_block(a, b) /\ file_path = b) =>
            /\ diff_file.operation_type = RENAMED
            /\ diff_file.content = RENAME_FROM_SP \o a \o <<" ", "t", "o", " ">> \o b

\* the pure rename of f to g has been classified
C9_Witness ==
    /\ cpc = "done"
    /\ file_diff = pure_rename_block(F, G)
    /\ file_path = G
    /\ diff_file.path = G

HunkText == SubSeq(file_diff, LineStart(file_diff, FirstHunk), Len(file_diff))

\* C11: for the block of a rename of X to Y with a similarity other than 100%
\* and a hunk, and the path Y, the record is Renamed and Modified and its
\* content is "rename from X to Y" followed by the text from the first "@@"
\* line to the end of the block, with nothing in between.
C11_RenamedAndModified ==
    \A x \in FilePaths, y \in FilePaths :
        (cpc = "done" /\ file_diff = renamed_and_modified_block(x, y) /\ file_path = y) =>
            /\ diff_file.operation_type = RENAMED_AND_MODIFIED
            /\ diff_file.content =
                   RENAME_FROM_SP \o x \o <<" ", "t", "o", " ">> \o y \o <<NL>> \o HunkText
            /\ startswith(HunkText, HUNK)

\* the rename of f to g with a changed line has been classified
C11_Witness ==
    /\ cpc = "done"
    /\ file_diff = renamed_and_modified_block(F, G)
    /\ file_path = G
    /\ diff_file.path = G
    /\ content_start_idx = 6

\* a line before the first "@@" line starts with the prefix
HasMeta(prefix) == \E n \in 1..(FirstHunk - 1) : startswith(LineOf(file_diff, n), prefix)

HasHunk == FirstHunk <= LineCount(file_diff)

\* the rename note of the last "rename from " line before the first "@@" line
LastRenameNote ==
    LineOf(file_diff, Max(RenameFromIdxs)) \o <<" ", "t", "o", " ">> \o file_path

\* C12: a block with a "new file mode" line before the first "@@" line, and
\* no "deleted file mode", "similarity index" or "rename from " line there,
\* is Added; with "deleted file mode" and no "new file mode", "similarity
\* index" or "rename from " line it is Deleted; the content then starts at
\* the first "@@" line (it is the text from that line on).
C12_AddedAndDeleted ==
    cpc = "done" =>
        /\ (/\ HasMeta(NEW_FILE_MODE) /\ ~HasMeta(DELETED_FILE_MODE)
            /\ ~HasMeta(SIMILARITY_INDEX) /\ ~HasMeta(RENAME_FROM_SP)) =>
               /\ diff_file.operation_type = ADDED
               /\ HasHunk => diff_file.content = HunkText
        /\ (/\ HasMeta(DELETED_FILE_MODE) /\ ~HasMeta(NEW_FILE_MODE)
            /\ ~HasMeta(SIMILARITY_INDEX) /\ ~HasMeta(RENAME_FROM_SP)) =>
               /\ diff_file.operation_type = DELETED
               /\ HasHunk => diff_file.content = HunkText

\* an added file with a hunk of two lines
C12_Witness ==
    /\ cpc = "done"
    /\ diff_file.operation_type = ADDED
    /\ FirstHunk = 2
    /\ LineCount(file_diff) = 3
    /\ ~HasMeta(RENAME_FROM_SP)

\* C13: a block without a line starting with "new file mode", "deleted file
\* mode" or "similarity index" before its first "@@" line is Modified.
C13_DefaultIsModified ==
    (/\ cpc = "done"
     /\ ~HasMeta(NEW_FILE_MODE) /\ ~HasMeta(DELETED_FILE_MODE)
     /\ ~HasMeta(SIMILARITY_INDEX)) =>
        diff_file.operation_type = MODIFIED

\* a Modified record of a block whose hunk holds a "new file mode" line
C13_Witness ==
    /\ cpc = "done"
    /\ diff_file.operation_type = MODIFIED
    /\ FirstHunk = 2
    /\ LineCount(file_diff) = 3
    /\ startswith(LineOf(file_diff, 3), NEW_FILE_MODE)

\* C14: for a block with an "@@" line and a record that is not Renamed, the
\* content is the text from the first "@@" line to the end of the block,
\* preceded by the rename note as one more line iff a "rename from " line
\* precedes the first "@@" line.
C14_ContentIsHunkText ==
    (cpc = "done" /\ HasHunk /\ diff_file.operation_type # RENAMED) =>
        diff_file.content =
            IF RenameFromIdxs = {} THEN HunkText
            ELSE LastRenameNote \o <<NL>> \o HunkText

\* a record with a note, whose content leaves out a line of metadata
C14_Witness ==
    /\ cpc = "done"
    /\ diff_file.operation_type # RENAMED
    /\ RenameFromIdxs = {1}
    /\ FirstHunk = 3
    /\ LineCount(file_diff) = 3

\* C15 as stated: a block without an "@@" line gives the empty content.
C15_NoHunkContentEmpty ==
    (cpc = "done" /\ ~HasHunk) => diff_file.content = <<>>

\* C15, amended: a block without an "@@" line gives, for a Renamed record,
\* the rename note alone (empty when no line starts with "rename from "),
\* and for any other record the whole block, preceded by the rename note as
\* one more line when a line starts with "rename from ".
C15_NoHunkContentIsBlock ==
    (cpc = "done" /\ ~HasHunk) =>
        diff_file.content =
            IF diff_file.operation_type = RENAMED
            THEN (IF RenameFromIdxs = {} THEN <<>> ELSE LastRenameNote)
            ELSE (IF RenameFromIdxs = {} THEN file_diff
                  ELSE LastRenameNote \o <<NL>> \o file_diff)

\* an added file without a hunk whose content is a note and the block
C15_Witness ==
    /\ cpc = "done"
    /\ ~HasHunk
    /\ diff_file.operation_type = ADDED
    /\ RenameFromIdxs # {}
    /\ Len(diff_file.content) > Len(file_diff)

\* C16: a block without a line starting with "@@", "new file mode", "deleted
\* file mode", "similarity index" or "rename from " is Modified and its
\* content is the block itself; a binary block keeps its "GIT binary patch"
\* line.
C16_NoMarkerContentIsBlock ==
    (/\ cpc = "done" /\ ~HasHunk
     /\ ~HasMeta(NEW_FILE_MODE) /\ ~HasMeta(DELETED_FILE_MODE)
     /\ ~HasMeta(SIMILARITY_INDEX) /\ ~HasMeta(RENAME_FROM_SP)) =>
        /\ diff_file.operation_type = MODIFIED
        /\ diff_file.content = file_diff
        /\ file_diff \in BinaryBlocks =>
               contains(diff_file.content, <<"G","I","T"," ","b","i","n","a","r","y"," ","p","a","t","c","h">>)

\* the binary block of f has been classified
C16_Witness ==
    /\ cpc = "done"
    /\ file_diff = binary_block(F)
    /\ diff_file.operation_type = MODIFIED
    /\ diff_file.content # <<>>

\* the lines before the first "@@" line that set the operation: those
\* starting with "new file mode" or "deleted file mode", and those starting
\* with "similarity index" when the block holds the words "rename from"
OpIdxs ==
    LET renaming == contains(file_diff, RENAME_FROM) IN
    {n \in 1..(FirstHunk - 1) :
        \/ startswith(LineOf(file_diff, n), NEW_FILE_MODE)
        \/ startswith(LineOf(file_diff, n), DELETED_FILE_MODE)
        \/ startswith(LineOf(file_diff, n), SIMILARITY_INDEX) /\ renaming}

\* the last of them, a line starting with "similarity index" (no line if the
\* last of them is another line, or there is none)
LastOpSimilarityLine ==
    LET ops == OpIdxs
        last == LineOf(file_diff, Max(ops))
    IN IF ops # {} /\ startswith(last, SIMILARITY_INDEX) THEN {last} ELSE {}

\* some line starts with the prefix
HasLine(prefix) ==
    \E n \in 1..LineCount(file_diff) : startswith(LineOf(file_diff, n), prefix)

\* C17 as stated: Renamed iff the block has a "similarity index 100%" line and
\* a "rename from " line, and no "@@" line after the similarity line.
C17_RenamedAsStated ==
    cpc = "done" =>
        (diff_file.operation_type = RENAMED <=>
            /\ HasLine(RENAME_FROM_SP)
            /\ \E n \in 1..LineCount(file_diff) :
                   /\ startswith(LineOf(file_diff, n), SIMILARITY_100)
                   /\ \A m \in (n + 1)..LineCount(file_diff) :
                          ~startswith(LineOf(file_diff, m), HUNK))

\* C17, amended: Renamed iff, among the lines before the first "@@" line, the
\* last one that sets the operation is a similarity line holding the words
\* "similarity index 100%".
C17_RenamedIffLastOpIsFullSimilarity ==
    cpc = "done" =>
        (diff_file.operation_type = RENAMED <=>
            \E line \in LastOpSimilarityLine : contains(line, SIMILARITY_100))

\* a Renamed record of a block with a hunk after its rename lines
C17_Witness ==
    /\ cpc = "done"
    /\ diff_file.operation_type = RENAMED
    /\ LineOf(file_diff, 1) = SIMILARITY_100
    /\ RenameFromIdxs = {2}
    /\ FirstHunk = 3

\* C18 as stated: Renamed and Modified iff the block has a "rename from "
\* line together with an "@@" line or a similarity line that is not 100%.
C18_RenamedAndModifiedAsStated ==
    cpc = "done" =>
        (diff_file.operation_type = RENAMED_AND_MODIFIED <=>
            /\ HasLine(RENAME_FROM_SP)
            /\ \/ HasHunk
               \/ \E n \in 1..LineCount(file_diff) :
                      /\ startswith(LineOf(file_diff, n), SIMILARITY_INDEX)
                      /\ ~startswith(LineOf(file_diff, n), SIMILARITY_100))

\* C18, amended: Renamed and Modified iff, among the lines before the first
\* "@@" line, the last one that sets the operation is a similarity line
\* without the words "similarity index 100%".
C18_RenamedAndModifiedIffLastOpIsPartialSimilarity ==
    cpc = "done" =>
        (diff_file.operation_type = RENAMED_AND_MODIFIED <=>
            \E line \in LastOpSimilarityLine : ~contains(line, SIMILARITY_100))

\* a Renamed and Modified record of a block without a hunk
C18_Witness ==
    /\ cpc = "done"
    /\ diff_file.operation_type = RENAMED_AND_MODIFIED
    /\ ~HasHunk
    /\ RenameFromIdxs # {}

\* the scan has just handled line i of the block (counted from 1), a line
\* starting with "similarity index", and the block has a "rename from " line
AfterSimilarityLine ==
    /\ cpc = "scan" /\ i >= 1
    /\ startswith(LineOf(file_diff, i), SIMILARITY_INDEX)
    /\ HasLine(RENAME_FROM_SP)

\* C19 as stated: in a block with a "rename from " line, a similarity line
\* yields Renamed if it is exactly "similarity index 100%", and Renamed and
\* Modified otherwise.
C19_ExactSimilarityAsStated ==
    AfterSimilarityLine =>
        operation_type = IF LineOf(file_diff, i) = SIMILARITY_100
                         THEN RENAMED ELSE RENAMED_AND_MODIFIED

\* C19, amended: in a block with a "rename from " line, a similarity line
\* yields Renamed if it holds the words "similarity index 100%" (further text
\* may follow them), and Renamed and Modified otherwise (another percentage,
\* "invalid%"); the scan goes on.
C19_SimilaritySubstring ==
    AfterSimilarityLine =>
        /\ operation_type = IF contains(LineOf(file_diff, i), SIMILARITY_100)
                            THEN RENAMED ELSE RENAMED_AND_MODIFIED
        /\ ENABLED NextClean

\* the line "similarity index 100% x" has been handled and gave Renamed
C19_Witness ==
    /\ AfterSimilarityLine
    /\ LineOf(file_diff, i) = SIMILARITY_100 \o <<" ", "x">>
    /\ operation_type = RENAMED

\* the line "similarity index invalid%" has been handled
C19_WitnessInvalid ==
    /\ AfterSimilarityLine
    /\ file_diff = invalid_similarity_block(F, G)
    /\ i = 2
    /\ operation_type = RENAMED_AND_MODIFIED

\* C20: for every path and every block, clean_diff_content never raises
\* (from the split of line 106 to the return a step can be taken; the split
\* itself takes no condition) and its scan ends (every step of the scan
\* moves to the next line of the block, or stops), at the first
\* "@@" line or at the end of the block; it returns one record, never
\* replaced, whose path is the path argument and whose operation is one of
\* the five operations.
C20_ClassificationTotal ==
    /\ [](cpc \in {"scan", "scanned"} => ENABLED NextClean)
    /\ [][cpc = "scan" => \/ i' = i + 1 /\ i' <= LineCount(file_diff)
                          \/ cpc' = "scanned"]_vars
    /\ [](cpc \in {"scanned", "done"} => i = FirstHunk - 1)
    /\ [](cpc = "done" =>
            /\ diff_file.path = file_path
            /\ diff_file.operation_type \in DiffOperation)
    /\ [][cpc = "done" => diff_file' = diff_file]_vars

\* a record of a block with contradictory markers and a hunk
C20_Witness ==
    /\ cpc = "done"
    /\ HasMeta(NEW_FILE_MODE) /\ HasMeta(DELETED_FILE_MODE)
    /\ HasHunk
    /\ diff_file.path = file_path

\* the record of the empty block
C20_WitnessEmpty ==
    /\ cpc = "done"
    /\ file_diff = <<>>
    /\ diff_file.operation_type = MODIFIED

---------------------------------------------------------------------------
(* Further properties of the segmenter (under Spec)                        *)

\* the last line of the block header line n opens
BlockLast(n) ==
    LET later == {m \in HeaderIdxs : m > n}
    IN IF later = {} THEN LineCount(diff) ELSE Min(later) - 1

\* the diff text without the block header line n opens
WithoutBlock(n) ==
    LET last == BlockLast(n)
        head == IF n = 1 THEN <<>> ELSE SubSeq(diff, 1, LineEnd(diff, n - 1))
        tail == IF last = LineCount(diff) THEN <<>>
                ELSE SubSeq(diff, LineStart(diff, last + 1), Len(diff))
    IN IF n = 1 THEN tail
       ELSE IF last = LineCount(diff) THEN head
       ELSE head \o <<NL>> \o tail

\* C21: when a call returns, a call on the diff text without the block of a
\* header whose destination path is not in the whitelist returns the same
\* mapping.
C21_RemovingUnlistedBlock ==
    pc = "done" =>
        \A n \in HeaderIdxs :
            DestinationPath(LineOf(diff, n)) \notin file_whitelist =>
                LET r == parse_diff_by_files(WithoutBlock(n), file_whitelist)
                IN ~r.raised /\ returned = {r.value}

\* the first block of three lines is not whitelisted, the last one is kept
C21_Witness ==
    /\ pc = "done"
    /\ LineCount(diff) = 3
    /\ HeaderIdxs = {1, 3}
    /\ DestinationPath(LineOf(diff, 1)) = F
    /\ file_whitelist = {G}
    /\ \E d \in returned : DOMAIN d = {G}
    /\ WithoutBlock(1) = LineOf(diff, 3)

---------------------------------------------------------------------------
(* Properties of clean_file_diffs (under SpecCleanFiles)                   *)

\* C22: the mapping clean_file_diffs returns has the keys of its argument
\* and maps each key p to the record clean_diff_content gives for p and the
\* argument's block of p alone, whatever the other items are; its path is p;
\* the empty mapping gives the empty mapping.
C22_CleanFileDiffs ==
    bpc = "done" =>
        LET arg == items_dict(file_diffs_items) IN
        /\ DOMAIN cleaned_diffs = DOMAIN arg
        /\ \A p \in DOMAIN arg :
               /\ cleaned_diffs[p] = clean_diff_content(p, arg[p])
               /\ cleaned_diffs[p].path = p
        /\ file_diffs_items = <<>> => cleaned_diffs = <<>>

\* a renamed and modified file, then a modified file whose content has no note
C22_Witness ==
    /\ bpc = "done"
    /\ Len(file_diffs_items) = 2
    /\ file_diffs_items[1] = <<G, renamed_and_modified_block(F, G)>>
    /\ file_diffs_items[2] = <<F, modified_block(F)>>
    /\ DOMAIN cleaned_diffs = {F, G}
    /\ cleaned_diffs[F].operation_type = MODIFIED
    /\ startswith(cleaned_diffs[F].content, HUNK)

---------------------------------------------------------------------------
(* Properties of FileFilter.exclude (under SpecFilter)                     *)

\* the positions of the files that match none of the patterns
KeptIdxs == {k \in DOMAIN files : \A j \in DOMAIN patterns : ~fnmatch(files[k], patterns[j])}

\* C23: exclude returns the files that match none of the patterns, in their
\* original order (the n-th returned file is the n-th of them), and the list
\* itself when there is no pattern; the generator's patterns end with "* *",
\* and its whitelist holds no path with a space.
C23_Exclude ==
    /\ fpc \in {"done", "whitelist"} =>
        /\ Len(file_filter_result) = Cardinality(KeptIdxs)
        /\ \A n \in DOMAIN file_filter_result :
               file_filter_result[n] = files[Kth(KeptIdxs, n)]
        /\ patterns = <<>> => file_filter_result = files
    /\ fpc \in {"called", "whitelist"} =>
        /\ patterns # <<>>
        /\ patterns[Len(patterns)] = <<"*", " ", "*">>
        /\ SubSeq(patterns, 1, Len(patterns) - 1) = self_blacklist_patterns
    /\ fpc = "whitelist" =>
        \A n \in DOMAIN file_filter_result :
            \A k \in DOMAIN file_filter_result[n] : file_filter_result[n][k] # " "

\* the generator drops a path with a space and keeps the one with a tab
C23_Witness ==
    /\ fpc = "whitelist"
    /\ self_blacklist_patterns = <<>>
    /\ files = << <<"a", " ", "b">>, <<"a", "\t", "b">> >>
    /\ file_filter_result = << <<"a", "\t", "b">> >>

\* exclude called without a pattern returns a list with a path with a space
C23_WitnessNoPattern ==
    /\ fpc = "done"
    /\ patterns = <<>>
    /\ files = << <<"a", " ", "b">>, F >>
    /\ file_filter_result = files

---------------------------------------------------------------------------
(* Further properties of the classifier (under SpecClean)                  *)

\* the operation a line that sets the operation gives
OperationOf(line) ==
    IF startswith(line, NEW_FILE_MODE) THEN ADDED
    ELSE IF startswith(line, DELETED_FILE_MODE) THEN DELETED
    ELSE IF contains(line, SIMILARITY_100) THEN RENAMED
    ELSE RENAMED_AND_MODIFIED

\* the content starts with the note of line n
NoteOfLineLeads(n) ==
    startswith(diff_file.content, LineOf(file_diff, n) \o <<" ", "t", "o", " ">> \o file_path)

\* C24 as stated: among the lines before the first "@@" line, the first line
\* that sets the operation decides it, and the first "rename from " line
\* gives the note.
C24_FirstMatchWins ==
    cpc = "done" =>
        LET ops == OpIdxs
            renames == RenameFromIdxs
        IN /\ ops # {} => diff_file.operation_type = OperationOf(LineOf(file_diff, Min(ops)))
           /\ renames # {} => NoteOfLineLeads(Min(renames))

\* C24, amended: among the lines before the first "@@" line, the last line
\* that sets the operation decides it, and the last "rename from " line gives
\* the note.
C24_LastMatchWins ==
    cpc = "done" =>
        LET ops == OpIdxs
            renames == RenameFromIdxs
        IN /\ ops # {} => diff_file.operation_type = OperationOf(LineOf(file_diff, Max(ops)))
           /\ renames # {} => NoteOfLineLeads(Max(renames))

\* two "rename from " lines of two sources and two mode lines that disagree
C24_Witness ==
    /\ cpc = "done"
    /\ LineCount(file_diff) = 3
    /\ LineOf(file_diff, 1) = RENAME_FROM_SP \o F
    /\ LineOf(file_diff, 2) = RENAME_FROM_SP \o G
    /\ startswith(LineOf(file_diff, 3), NEW_FILE_MODE)
    /\ diff_file.operation_type = ADDED
    /\ NoteOfLineLeads(2)

\* a "new file mode" line, then a "deleted file mode" line: Deleted
C24_WitnessModes ==
    /\ cpc = "done"
    /\ LineCount(file_diff) = 2
    /\ startswith(LineOf(file_diff, 1), NEW_FILE_MODE)
    /\ startswith(LineOf(file_diff, 2), DELETED_FILE_MODE)
    /\ diff_file.operation_type = DELETED

\* the hunks put in the place of the lines from the first "@@" line on
OtherHunks ==
    { join(<<NL>>, <<HunkLines[1]>>),
      join(<<NL>>, HunkLines),
      join(<<NL>>, <<HunkLines[1], <<"+">> \o RENAME_FROM_SP \o F>>) }

\* the block's text before its first "@@" line
Metadata == SubSeq(file_diff, 1, LineStart(file_diff, FirstHunk) - 1)

\* C25: the operation and the rename note of a block with an "@@" line are
\* those of every block with the same lines before the first "@@" line and
\* another hunk in the place of the lines from that line on.
C25_OnlyMetadataDecides ==
    (cpc = "done" /\ HasHunk) =>
        \A hunk \in OtherHunks :
            LET other == Metadata \o hunk
                st == scan_from([operation_type |-> MODIFIED, name_history |-> <<>>,
                                 content_start_idx |-> 0],
                                split(other, NL), 1, other, file_path)
            IN /\ st.operation_type = diff_file.operation_type
               /\ st.name_history = name_history

\* the block's text the content is made of: from the first "@@" line on, or
\* the whole block when it has no such line
RawContent == IF HasHunk THEN HunkText ELSE file_diff

\* C26 as stated: a record that is not Renamed and whose content begins with
\* the rename note is Renamed and Modified.
C26_NoteOnlyForRenamedAndModified ==
    (/\ cpc = "done" /\ diff_file.operation_type # RENAMED
     /\ RenameFromIdxs # {}
     /\ startswith(diff_file.content, LastRenameNote \o <<NL>>)) =>
        diff_file.operation_type = RENAMED_AND_MODIFIED

\* C26, amended: the content of a record that is not Renamed begins with the
\* rename note, as one more line, exactly when a "rename from " line precedes
\* the first "@@" line, whatever the operation is.
C26_NoteForEveryOperation ==
    (cpc = "done" /\ diff_file.operation_type # RENAMED) =>
        /\ RenameFromIdxs # {} => diff_file.content = LastRenameNote \o <<NL>> \o RawContent
        /\ RenameFromIdxs = {} => diff_file.content = RawContent

\* an Added record whose content begins with the note
C26_Witness ==
    /\ cpc = "done"
    /\ diff_file.operation_type = ADDED
    /\ RenameFromIdxs # {}
    /\ HasHunk
    /\ startswith(diff_file.content, LastRenameNote \o <<NL>> \o HUNK)

---------------------------------------------------------------------------
(* Properties of the block marker (under Spec)                             *)

\* the loop has just handled a line of the diff text: this line
HandledLine == LineOf(diff, line_idx - 1)

\* C27 as stated: a line that begins with "diff --git" followed by anything
\* but a space starts no block.
C27_MarkerEndsWithSpace ==
    (/\ pc = "loop" /\ line_idx >= 2
     /\ startswith(HandledLine, DIFF_GIT)
     /\ ~startswith(HandledLine, DIFF_GIT \o <<" ">>)) =>
        current_diff_lines # <<HandledLine>>

\* C27, amended: a block starts exactly at the lines that begin with
\* "diff --git", whatever follows these ten characters: such a line is
\* validated as a header and opens the block of its destination path, and no
\* other line opens a block.
C27_MarkerIsDiffGit ==
    (pc = "loop" /\ line_idx >= 2) =>
        /\ startswith(HandledLine, DIFF_GIT) =>
               /\ WellFormedHeader(HandledLine)
               /\ current_diff_lines = <<HandledLine>>
               /\ current_file = DestinationPath(HandledLine)
        /\ ~startswith(HandledLine, DIFF_GIT) => current_diff_lines # <<HandledLine>>

\* the line "diff --gitx a/g b/g" has opened the block of g
C27_Witness ==
    /\ pc = "loop" /\ line_idx = 3
    /\ HandledLine = <<"d","i","f","f"," ","-","-","g","i","t","x"," ","a","/","g"," ","b","/","g">>
    /\ current_file = G
    /\ current_diff_lines = <<HandledLine>>

\* the header lines that name the destination path p
HeadersOf(p) == {n \in HeaderIdxs \ MalformedIdxs : DestinationPath(LineOf(diff, n)) = p}

JoinedBlocks(d) ==
    join(<<NL>>, [k \in 1..Cardinality(HeaderIdxs) |->
                     d[DestinationPath(LineOf(diff, Kth(HeaderIdxs, k)))]])

\* C29: when the diff text begins with a header line and the headers are
\* well-formed, with destination paths that are distinct, non-empty and
\* whitelisted, the blocks of the mapping joined by newlines in the order of
\* their headers are the diff text.
C29_NoTextLost ==
    (/\ pc = "done"
     /\ 1 \in HeaderIdxs
     /\ Cardinality(HeaderPaths) = Cardinality(HeaderIdxs)
     /\ <<>> \notin HeaderPaths
     /\ HeaderPaths \subseteq file_whitelist) =>
        \A d \in returned : JoinedBlocks(d) = diff

\* two blocks, of f and of g, the first one of two lines
C29_Witness ==
    /\ pc = "done"
    /\ LineCount(diff) = 3
    /\ HeaderIdxs = {1, 3}
    /\ HeaderPaths = {F, G}
    /\ file_whitelist = {F, G}
    /\ \E d \in returned : DOMAIN d = {F, G} /\ JoinedBlocks(d) = diff

---------------------------------------------------------------------------
(* extract_diff_content, step by step                                      *)

\* line 131: clean_diff_content passes its own list, index and note
CleanCallsExtract ==
    /\ cpc = "scanned" /\ operation_type # RENAMED /\ epc = "idle"
    /\ arg_lines' = block_lines
    /\ arg_content_start_idx' = content_start_idx
    /\ arg_name_history' = name_history
    /\ epc' = "call" /\ cpc' = "in_extract"
    /\ UNCHANGED <<file_path, file_diff, block_lines, i, operation_type, name_history,
                   content_start_idx, diff_file, cleaned_lines, extract_result,
                   header_vars, parse_vars, batch_vars, filter_vars>>

\* lines 138-139
ContentBeyondBounds ==
    /\ epc = "call"
    /\ arg_content_start_idx >= Len(arg_lines)
    /\ extract_result' = <<>>
    /\ epc' = "done"
    /\ UNCHANGED <<arg_lines, arg_content_start_idx, arg_name_history, cleaned_lines,
                   header_vars, parse_vars, clean_vars, batch_vars, filter_vars>>

\* line 141: the slice is a new list
ContentSlice ==
    /\ epc = "call"
    /\ arg_content_start_idx < Len(arg_lines)
    /\ cleaned_lines' = SubSeq(arg_lines, arg_content_start_idx + 1, Len(arg_lines))
    /\ epc' = "sliced"
    /\ UNCHANGED <<arg_lines, arg_content_start_idx, arg_name_history, extract_result,
                   header_vars, parse_vars, clean_vars, batch_vars, filter_vars>>

\* a bug the insertion could have: a slice from index 0 is the caller's list
\* itself, and the note is inserted into it
ContentInsertHistory_in_place ==
    /\ epc = "sliced"
    /\ truthy(arg_name_history)
    /\ cleaned_lines' = <<arg_name_history>> \o cleaned_lines
    /\ arg_lines' = IF arg_content_start_idx = 0 THEN cleaned_lines' ELSE arg_lines
    /\ epc' = "ready"
    /\ UNCHANGED <<arg_content_start_idx, arg_name_history, extract_result,
                   header_vars, parse_vars, clean_vars, batch_vars, filter_vars>>

\* lines 142-143: the note goes in front of the slice
ContentInsertHistory ==
    /\ epc = "sliced"
    /\ truthy(arg_name_history)
    /\ cleaned_lines' = <<arg_name_history>> \o cleaned_lines
    /\ epc' = "ready"
    /\ UNCHANGED <<arg_lines, arg_content_start_idx, arg_name_history, extract_result,
                   header_vars, parse_vars, clean_vars, batch_vars, filter_vars>>

\* line 142: no note
ContentWithoutHistory ==
    /\ epc = "sliced"
    /\ ~truthy(arg_name_history)
    /\ epc' = "ready"
    /\ UNCHANGED <<arg_lines, arg_content_start_idx, arg_name_history, cleaned_lines,
                   extract_result, header_vars, parse_vars, clean_vars, batch_vars,
                   filter_vars>>

\* line 145
ContentJoin ==
    /\ epc = "ready"
    /\ extract_result' = join(<<NL>>, cleaned_lines)
    /\ epc' = "done"
    /\ UNCHANGED <<arg_lines, arg_content_start_idx, arg_name_history, cleaned_lines,
                   header_vars, parse_vars, clean_vars, batch_vars, filter_vars>>

\* lines 131-132: clean_diff_content returns with the content it got
CleanReturnsContent ==
    /\ cpc = "in_extract" /\ epc = "done"
    /\ diff_file' = [path |-> file_path, operation_type |-> operation_type,
                     content |-> extract_result]
    /\ cpc' = "done"
    /\ UNCHANGED <<file_path, file_diff, block_lines, i, operation_type, name_history,
                   content_start_idx, header_vars, parse_vars, batch_vars, filter_vars,
                   extract_vars>>

\* the lines of a list handed to extract_diff_content
ContentLines == { <<"@", "@">>, <<"+", "x">> }

\* the lists: none to MaxExtractLines lines
ContentLists == SeqsUpTo(ContentLines, 0, MaxExtractLines)

\* the notes: none, and a rename note
NameHistories == { <<>>, rename_note(RENAME_FROM \o <<" ">> \o F, G) }

\* extract_diff_content is called on a list, an index (in the list or past its
\* end) and a note, or clean_diff_content is called on a path and a block
InitExtract ==
    \/ /\ arg_lines \in ContentLists
       /\ arg_content_start_idx \in 0..(MaxExtractLines + 1)
       /\ arg_name_history \in NameHistories
       /\ cleaned_lines = <<>> /\ extract_result = None /\ epc = "call"
       /\ HeaderIdle
       /\ ParseIdle
       /\ CleanIdle
       /\ BatchIdle
       /\ FilterIdle
    \/ InitClean

NextExtract ==
    \/ CleanCall
    \/ ScanNewFileMode
    \/ ScanDeletedFileMode
    \/ ScanSimilarityIndex
    \/ ScanRenameFrom
    \/ ScanHunk
    \/ ScanOtherLine
    \/ ScanEnd
    \/ ReturnPureRename
    \/ CleanCallsExtract
    \/ ContentBeyondBounds
    \/ ContentSlice
    \/ ContentInsertHistory
    \/ ContentWithoutHistory
    \/ ContentJoin
    \/ CleanReturnsContent

SpecExtract == InitExtract /\ [][NextExtract]_vars

---------------------------------------------------------------------------
(* Properties of extract_diff_content (under SpecExtract)                  *)

\* lines[idx:] of the call, joined by newlines, after the note if there is one
NoteAndTail ==
    LET tail == SubSeq(arg_lines, arg_content_start_idx + 1, Len(arg_lines))
        note == IF arg_name_history = <<>> THEN <<>> ELSE <<arg_name_history>>
    IN join(<<NL>>, note \o tail)

\* C30: extract_diff_content(lines, idx, note) returns the empty string when
\* idx >= len(lines), whatever the note; otherwise lines[idx:] joined by
\* newlines, with the note as a first line iff the note is not empty; the list
\* passed as lines is never modified; and clean_diff_content only calls it
\* with idx < len(lines), so that the first case does not arise there.
C30_ExtractDiffContent ==
    /\ [](epc = "done" =>
              extract_result = IF arg_content_start_idx >= Len(arg_lines)
                               THEN <<>> ELSE NoteAndTail)
    /\ [][epc # "idle" => arg_lines' = arg_lines]_vars
    /\ [](cpc = "in_extract" =>
              /\ arg_lines = block_lines
              /\ arg_content_start_idx < Len(arg_lines))
    /\ [](cpc = "done" /\ operation_type # RENAMED =>
              diff_file.content = extract_result)

\* the note and the lines from the second one on, in a call of its own
C30_Witness ==
    /\ cpc = "idle" /\ epc = "done"
    /\ arg_content_start_idx = 1 /\ Len(arg_lines) = 2
    /\ arg_name_history # <<>>
    /\ extract_result = arg_name_history \o <<NL>> \o arg_lines[2]

\* an index past the end with a note: the empty string
C30_WitnessBeyond ==
    /\ cpc = "idle" /\ epc = "done"
    /\ arg_content_start_idx > Len(arg_lines) /\ Len(arg_lines) = 2
    /\ arg_name_history # <<>>
    /\ extract_result = <<>>

\* clean_diff_content has called it with a note and the index of the hunk line
C30_WitnessFromClean ==
    /\ cpc = "done" /\ epc = "done"
    /\ arg_name_history # <<>>
    /\ arg_content_start_idx = 2 /\ Len(arg_lines) = 3
    /\ diff_file.content = arg_name_history \o <<NL>> \o arg_lines[3]

=============================================================================
